---- MODULE Spec2Model ----
(***************************************************************************)
(* Page objects of wdio-vscode-service over a live VS Code page.           *)
(*                                                                         *)
(*   Input / QuickPickItem   src/src/pageobjects/Workbench/input/Input.ts  *)
(*   NewScmView, SingleScmProvider, MultiScmProvider   src/unnamed/part_000*)
(*                                                                         *)
(* The page (the DOM the host renders) is the state; every page object     *)
(* method is an action over it.  The driver calls (click, getAttribute,    *)
(* addValue, element queries) are the host's answers for the page at hand. *)
(***************************************************************************)
EXTENDS Integers, Sequences, FiniteSets, TLC

\* ------------------------------------------------------------------ bounds
\* Longest quick pick list the host renders.
MaxItems == 3
\* Rows of the virtualized quick pick list that are in the DOM at once.
PageSize == 2

\* Labels of quick pick items, texts of the input field, search arguments:
\* strings are sequences of characters, so that indexOf is computed.
Labels == {<<"a">>, <<"b">>, <<"a", "b">>}
FieldTexts == {<< >>, <<"a", "b">>}
SearchTexts == {<< >>, <<"a">>, <<"b">>, <<"b", "a">>}

\* `undefined` as the result of findQuickPick.
None == -1

Min(a, b) == IF a < b THEN a ELSE b
Max(a, b) == IF a > b THEN a ELSE b
Front(s) == SubSeq(s, 1, Len(s) - 1)

RECURSIVE SeqsUpTo(_, _)
SeqsUpTo(S, n) ==
    IF n = 0 THEN {<< >>}
    ELSE LET shorter == SeqsUpTo(S, n - 1)
         IN shorter \cup {Append(s, x) : s \in shorter, x \in S}

VARIABLES
    \* ---- the input box (Input.ts)
    field,        \* the <input> element: [value, sel] (sel: its text is selected)
    clipboard,    \* the system clipboard
    items,        \* labels of the quick pick list, item i at items[i + 1]
    top,          \* data-index of the first list row that is in the DOM
    marksLast,    \* the host renders the sentinel "last row" element
    pc,           \* position inside the running call
    op,           \* the method that was called
    arg,          \* indexOrText
    found,        \* what findQuickPick resolves to: an index, or None
    visited,      \* the pages (values of top) getQuickPicks was read at
    clicks,       \* quick pick items clicked, in order
    resets,       \* calls of resetPosition
    textBefore,   \* the field's text when the method was called
    \* ---- the input box's other elements (Input.ts)
    selectAll,    \* 'select all' checkboxes: [count, selected]
    titleBar,     \* title bars: [count, displayed, backButtons, enabled]
    description,  \* the quick pick item has a description element
    call,         \* the last method called: [name, state]
    outcome,      \* how its promise settled: [state, value]
    pressed,      \* elements it clicked, in order
    repeats,      \* calls in a row with this name and argument
    ncalls,       \* calls made so far
    \* ---- the source control view (part_000)
    rows,         \* the tree rows in the DOM, row with data-index i at rows[i + 1]
    scmCall,      \* the last method called: [name, provider, staged]
    scmResult     \* what it resolved to: [providers, count, header, elements]

inputVars == <<field, clipboard, items, top, marksLast, pc, op, arg, found,
               visited, clicks, resets, textBefore>>

widgetVars == <<selectAll, titleBar, description, call, outcome, pressed,
                repeats, ncalls>>

scmVars == <<rows, scmCall, scmResult>>

vars == <<inputVars, widgetVars, scmVars>>

\* ------------------------------------------------- host: keys on the field
\* 'End': caret to the end, selection dropped.
KeyEnd(f) == [f EXCEPT !.sel = FALSE]

\* 'Shift'+'Home' with the caret at the end: the whole text is selected.
KeyShiftHome(f) == [f EXCEPT !.sel = (Len(f.value) > 0)]

\* 'Backspace': erases the selection, or the character before the caret;
\* the host may swallow the key (the reason clear() tries twice).
KeyBackspace(f) ==
    { [value |-> IF f.sel THEN << >> ELSE Front(f.value), sel |-> FALSE], f }

\* Characters typed or pasted at the caret replace the selection.
Insert(f, text) ==
    IF Len(text) = 0 THEN f
    ELSE [value |-> IF f.sel THEN text ELSE f.value \o text, sel |-> FALSE]

\* addValue(text): the host may malform what is typed (a character is lost).
TypeText(f, text) ==
    {Insert(f, text)} \cup (IF Len(text) > 0 THEN {Insert(f, Front(text))} ELSE {})

\* ------------------------------------------------------ Input.ts: the field
getText(f) == f.value

clear(f) ==
    LET once(g) == KeyBackspace(KeyShiftHome(KeyEnd(g)))
    IN UNION { IF Len(f1.value) > 0 THEN once(f1) ELSE {f1} : f1 \in once(f) }

\* setText without the clipboard fallback of lines 36-42.
setTextNoFallback(st, text) ==
    UNION { LET f2 == IF Len(getText(f1)) > 0 THEN KeyShiftHome(KeyEnd(f1)) ELSE f1
            IN {[field |-> f3, clipboard |-> st.clipboard] : f3 \in TypeText(f2, text)}
            : f1 \in clear(st.field) }

\* st = [field, clipboard]; the set of states setText can leave.
setText(st, text) ==
    UNION { LET f2 == IF Len(getText(f1)) > 0 THEN KeyShiftHome(KeyEnd(f1)) ELSE f1
            IN UNION { IF getText(f3) # text
                       THEN {[field |-> Insert(KeyShiftHome(KeyEnd(f3)), text),
                              clipboard |-> << >>]}
                       ELSE {[field |-> f3, clipboard |-> st.clipboard]}
                       : f3 \in TypeText(f2, text) }
            : f1 \in clear(st.field) }

resetPosition(st) ==
    LET text == getText(st.field)
    IN UNION { setText([field |-> f1, clipboard |-> st.clipboard], text)
               : f1 \in clear(st.field) }

\* ------------------------------------------------ host: the quick pick list
\* data-index of the rows in the DOM, in DOM order.
Window(its, t) ==
    [k \in 1..Max(0, Min(PageSize, Len(its) - t)) |-> t + k - 1]

\* 'PageDown' scrolls one page, never past the end of the list.
PageDown(its, t) == Min(t + PageSize, Max(0, Len(its) - PageSize))

AriaPosInSet(i) == i + 1
AriaSetSize(its) == Len(its)

\* The sentinel element is in the DOM when the host marks the last row and
\* that row is rendered.
LastRowPresent(its, t, marks) ==
    marks /\ \E k \in 1..Len(Window(its, t)) : Window(its, t)[k] = Len(its) - 1

\* Rows with aria-posinset = 1 in the DOM.
FirstPresent(its, t) == Len(its) > 0 /\ t = 0

\* ------------------------------------------------- Input.ts: findQuickPick
getQuickPicks(its, t) == Window(its, t)

getLabel(its, i) == its[i + 1]

\* text.indexOf(sub) > -1
Contains(text, sub) ==
    \E i \in 0..(Len(text) - Len(sub)) : SubSeq(text, i + 1, i + Len(sub)) = sub

TextArg(t) == [isText |-> TRUE, text |-> t, index |-> None]
IndexArg(n) == [isText |-> FALSE, text |-> << >>, index |-> n]

\* The test of line 150 written as indexOf(...) > 0.
PickMatchesIndexOfPositive(its, i, a) ==
    IF a.isText
    THEN \E k \in 1..(Len(getLabel(its, i)) - Len(a.text)) :
             SubSeq(getLabel(its, i), k + 1, k + Len(a.text)) = a.text
    ELSE a.index = i

PickMatches(its, i, a) ==
    IF a.isText THEN Contains(getLabel(its, i), a.text) ELSE a.index = i

\* The body of the for loop over one page: the pick returned (or None) and
\* endReached after it.
RECURSIVE ScanPicks(_, _, _, _, _, _)
ScanPicks(its, picks, k, a, lastRow, end) ==
    IF k > Len(picks) THEN [found |-> None, endReached |-> end]
    ELSE LET pick == picks[k]
             end2 == \/ end
                     \/ lastRow
                     \/ AriaPosInSet(pick) = AriaSetSize(its)
         IN IF PickMatches(its, pick, a)
            THEN [found |-> pick, endReached |-> end2]
            ELSE ScanPicks(its, picks, k + 1, a, lastRow, end2)

ScanPage(its, t, marks, a) ==
    ScanPicks(its, getQuickPicks(its, t), 1, a, LastRowPresent(its, t, marks), FALSE)

\* ------------------------------- Input.ts: the input box's other elements
\* Most calls of one session.
MaxCalls == 3

\* A click on a checkbox toggles it.
ClickCheckbox(cb) == [cb EXCEPT !.selected = ~@]

Fulfilled(v) == [state |-> "fulfilled", value |-> v]
Rejected(e) == [state |-> "rejected", value |-> e]

\* toggleAllQuickPicks without the click of lines 118-120.
toggleWithoutFirstClick(cb, state) ==
    IF cb.count = 0
    THEN [outcome |-> Rejected("TypeError"), pressed |-> << >>, selectAll |-> cb]
    ELSE IF state = FALSE
    THEN [outcome |-> Fulfilled("undefined"), pressed |-> <<"selectAll">>,
          selectAll |-> ClickCheckbox(cb)]
    ELSE [outcome |-> Fulfilled("undefined"), pressed |-> << >>, selectAll |-> cb]

\* toggleAllQuickPicks(state), lines 113-124: [outcome, pressed, selectAll].
\* checkboxes[0] of an empty array is undefined, and a method call on it
\* throws a TypeError.
toggleAllQuickPicks(cb, state) ==
    IF cb.count < 0
    THEN [outcome |-> Fulfilled("undefined"), pressed |-> << >>, selectAll |-> cb]
    ELSE IF cb.count = 0
    THEN [outcome |-> Rejected("TypeError"), pressed |-> << >>, selectAll |-> cb]
    ELSE LET first == ~cb.selected
             cb1 == IF first THEN ClickCheckbox(cb) ELSE cb
             p1 == IF first THEN <<"selectAll">> ELSE << >>
             second == (state = FALSE)
             cb2 == IF second THEN ClickCheckbox(cb1) ELSE cb1
             p2 == IF second THEN Append(p1, "selectAll") ELSE p1
         IN [outcome |-> Fulfilled("undefined"), pressed |-> p2, selectAll |-> cb2]

\* back without the isEnabled test of line 184.
backIgnoresEnabled(tb) ==
    IF tb.count > 0 /\ tb.displayed /\ tb.backButtons > 0
    THEN [outcome |-> Fulfilled("true"), pressed |-> <<"backButton">>]
    ELSE [outcome |-> Fulfilled("false"), pressed |-> << >>]

\* back(), lines 180-190: [outcome, pressed].
back(tb) ==
    IF tb.count > 0 /\ tb.displayed
    THEN IF tb.backButtons > 0 /\ tb.enabled
         THEN [outcome |-> Fulfilled("true"), pressed |-> <<"backButton">>]
         ELSE [outcome |-> Fulfilled("false"), pressed |-> << >>]
    ELSE [outcome |-> Fulfilled("false"), pressed |-> << >>]

\* quickPickDescription$.getText(): the driver's promise; it rejects when
\* the element is not found.  The chained call itself never throws.
DescriptionText(present) ==
    IF present THEN Fulfilled("text") ELSE Rejected("element wasn't found")

\* getDescription(), lines 237-243: the promise is returned from inside the
\* try block without being awaited, so the async function's own promise
\* follows it; the catch clause runs only for an exception thrown while the
\* expression is evaluated.
getDescription(present) ==
    LET thrown == FALSE
    IN IF thrown THEN Fulfilled("undefined") ELSE DescriptionText(present)

\* ------------------------------------------- host: the source control view
\* Largest count a change group header displays.
MaxCount == 2
\* Most providers (repositories) the view shows.
MaxProviders == 2

Row(kind, level, count) == [kind |-> kind, level |-> level, count |-> count]

RECURSIVE Repeat(_, _)
Repeat(x, n) == IF n = 0 THEN << >> ELSE <<x>> \o Repeat(x, n - 1)

\* A change group with c resources, when shown: its header at `level` showing c, then
\* the resources one level below (list mode), or a folder one level below
\* with the resources under it (tree mode).
GroupRows(kind, shown, c, level, mode) ==
    IF ~shown THEN << >>
    ELSE <<Row(kind, level, c)>> \o
         (IF mode = "list" THEN Repeat(Row("item", level + 1, 0), c)
          ELSE IF c = 0 THEN << >>
          ELSE <<Row("item", level + 1, 0)>> \o Repeat(Row("item", level + 2, 0), c))

\* One provider: its own row when the view shows several, its input field
\* when visible, the staged group, the changes group.
ProviderRows(p, multi, inputs, mode) ==
    LET level == IF multi THEN 2 ELSE 1
    IN (IF multi THEN <<Row("provider", 1, 0)>> ELSE << >>)
       \o (IF inputs THEN <<Row("input", level, 0)>> ELSE << >>)
       \o GroupRows("staged", p.hasStaged, p.staged, level, mode)
       \o GroupRows("changes", p.hasChanges, p.changes, level, mode)

RECURSIVE ViewRows(_, _, _, _)
ViewRows(ps, multi, inputs, mode) ==
    IF Len(ps) = 0 THEN << >>
    ELSE ProviderRows(Head(ps), multi, inputs, mode)
         \o ViewRows(Tail(ps), multi, inputs, mode)

\* A provider's groups: whether each is rendered, and the count it shows.
ProviderConfigs ==
    {[hasStaged |-> s \in 0..MaxCount, staged |-> Max(s, 0),
      hasChanges |-> c \in 0..MaxCount, changes |-> Max(c, 0)] :
        s \in (0 - 1)..MaxCount, c \in (0 - 1)..MaxCount}

\* Every view the host renders: one provider shown without a row of its
\* own, or up to MaxProviders providers each under its own row.
Views ==
    {ViewRows(<<p>>, FALSE, inputs, mode) :
        p \in ProviderConfigs, inputs \in BOOLEAN, mode \in {"list", "tree"}}
    \cup {ViewRows(ps, TRUE, inputs, mode) :
        ps \in SeqsUpTo(ProviderConfigs, MaxProviders), inputs \in BOOLEAN,
        mode \in {"list", "tree"}}

\* The elements a locator finds come in DOM order: by rising data-index.
RECURSIVE InDomOrder(_)
InDomOrder(S) ==
    IF S = {} THEN << >>
    ELSE LET m == CHOOSE x \in S : \A y \in S : x <= y
         IN <<m>> \o InDomOrder(S \ {m})

RowIndexes(rs) == 0..(Len(rs) - 1)

inputField(rs) == InDomOrder({i \in RowIndexes(rs) : rs[i + 1].kind = "input"})

multiScmProvider(rs) ==
    InDomOrder({i \in RowIndexes(rs) : rs[i + 1].kind = "provider"})

multiProviderItem(rs) ==
    InDomOrder({i \in RowIndexes(rs) :
                    rs[i + 1].kind = "provider" /\ rs[i + 1].level = 1})

itemLevel(rs, depth) ==
    InDomOrder({i \in RowIndexes(rs) : rs[i + 1].level = depth})

\* locators.stagedChanges / locators.changes
groupHeaders(rs, staged) ==
    InDomOrder({i \in RowIndexes(rs) :
                    rs[i + 1].kind = (IF staged THEN "staged" ELSE "changes")})

dataIndex(i) == i
ariaLevel(rs, i) == rs[i + 1].level
\* The number in the count badge of a header row.
changeCountText(rs, i) == rs[i + 1].count

\* ------------------------------------------------ part_000: NewScmView
SingleProvider == [type |-> "single", index |-> None]
MultiProvider(i) == [type |-> "multi", index |-> i]

\* getProviders with the test of line 20 on inputs.length alone.
getProvidersIgnoresProviderElements(rs) ==
    IF Len(inputField(rs)) < 1 THEN << >>
    ELSE IF Len(inputField(rs)) = 1 THEN <<SingleProvider>>
    ELSE [k \in 1..Len(multiProviderItem(rs)) |-> MultiProvider(multiProviderItem(rs)[k])]

\* getProviders, lines 13-30.
getProviders(rs) ==
    LET inputs == inputField(rs)
        providers == multiScmProvider(rs)
        elements == multiProviderItem(rs)
    IN IF Len(inputs) < 1 THEN << >>
       ELSE IF Len(inputs) = 1 /\ Len(providers) < 1 THEN <<SingleProvider>>
       ELSE [k \in 1..Len(elements) |-> MultiProvider(elements[k])]

\* ------------------------------------------ part_000: the change filter
\* The test of lines 86 and 156 with the upper end left out.
inRangeExclusive(index, startIndex, count) ==
    index > startIndex /\ index < startIndex + count

\* Lines 86 and 156.
inRange(index, startIndex, count) ==
    index > startIndex /\ index <= startIndex + count

\* Lines 80-89 and 150-159: the rows at the header's depth + 1 in the range.
RECURSIVE FilterChanges(_, _, _, _)
FilterChanges(its, k, startIndex, count) ==
    IF k > Len(its) THEN << >>
    ELSE (IF inRange(dataIndex(its[k]), startIndex, count) THEN <<its[k]>> ELSE << >>)
         \o FilterChanges(its, k + 1, startIndex, count)

changesUnder(rs, header, count) ==
    LET startIndex == dataIndex(header)
        depth == ariaLevel(rs, header) + 1
    IN FilterChanges(itemLevel(rs, depth), 1, startIndex, count)

NoChanges(count) == [count |-> count, header |-> None, elements |-> << >>]

\* ------------------------------------------ part_000: SingleScmProvider
\* ScmProvider.getChangeCount, inherited: the count on the provider's group
\* header of the requested kind, 0 without one.
singleGetChangeCount(rs, staged) ==
    LET hs == groupHeaders(rs, staged)
    IN IF Len(hs) < 1 THEN 0 ELSE changeCountText(rs, hs[1])

\* getChanges, lines 72-96: [count, header, elements].
singleGetChanges(rs, staged) ==
    LET count == singleGetChangeCount(rs, staged)
    IN IF count > 0
       THEN LET header == groupHeaders(rs, staged)[1]
            IN [count |-> count, header |-> header,
                elements |-> changesUnder(rs, header, count)]
       ELSE NoChanges(count)

\* ------------------------------------------- part_000: MultiScmProvider
\* getChangeCount, lines 168-180.
multiGetChangeCount(rs, index, staged) ==
    LET hs == groupHeaders(rs, staged)
    IN IF \E k \in 1..Len(hs) : dataIndex(hs[k]) > index
       THEN changeCountText(rs, hs[1])
       ELSE 0

\* Lines 139-145: the loop assigns header at every row past the provider
\* and does not stop, so the last one stays.
RECURSIVE pickHeader(_, _, _, _)
pickHeader(hs, k, index, header) ==
    IF k > Len(hs) THEN header
    ELSE pickHeader(hs, k + 1, index,
                    IF dataIndex(hs[k]) > index THEN hs[k] ELSE header)

\* getChanges, lines 130-166: [count, header, elements].
multiGetChanges(rs, index, staged) ==
    LET count == multiGetChangeCount(rs, index, staged)
    IN IF count > 0
       THEN LET header == pickHeader(groupHeaders(rs, staged), 1, index, None)
            IN IF header = None THEN NoChanges(count)
               ELSE [count |-> count, header |-> header,
                     elements |-> changesUnder(rs, header, count)]
       ELSE NoChanges(count)

NoResult == [providers |-> << >>, count |-> 0, header |-> None, elements |-> << >>]

\* The source control view, left alone by the input box's calls.
ScmAtRest ==
    /\ rows = << >>
    /\ scmCall = [name |-> "none", provider |-> SingleProvider, staged |-> FALSE]
    /\ scmResult = NoResult

\* The rest of the input box, left alone by findQuickPick and selectQuickPick.
WidgetsAtRest ==
    /\ selectAll = [count |-> 0, selected |-> FALSE]
    /\ titleBar = [count |-> 0, displayed |-> FALSE, backButtons |-> 0,
                   enabled |-> FALSE]
    /\ description = FALSE
    /\ call = [name |-> "none", state |-> FALSE]
    /\ outcome = [state |-> "none", value |-> "none"]
    /\ pressed = << >>
    /\ repeats = 0
    /\ ncalls = 0

\* ----------------------------------------------------------------- Init
InitInput ==
    /\ field \in {[value |-> v, sel |-> FALSE] : v \in FieldTexts}
    /\ clipboard = <<"z">>
    /\ items \in SeqsUpTo(Labels, MaxItems)
    /\ top \in 0..Max(0, Len(items) - PageSize)
    /\ marksLast \in BOOLEAN
    /\ pc = "idle"
    /\ op = "none"
    /\ arg = IndexArg(None)
    /\ found = None
    /\ visited = {}
    /\ clicks = << >>
    /\ resets = 0
    /\ textBefore = << >>
    /\ WidgetsAtRest
    /\ ScmAtRest

Args == {TextArg(t) : t \in SearchTexts} \cup {IndexArg(n) : n \in 0..MaxItems}

\* -------------------------------------------------------------- actions
\* findQuickPick is entered, line 131.
CallFindQuickPick ==
    /\ pc = "idle"
    /\ \E a \in Args : arg' = a
    /\ op' = "findQuickPick"
    /\ pc' = "first"
    /\ textBefore' = getText(field)
    /\ UNCHANGED <<field, clipboard, items, top, marksLast, found, visited,
                   clicks, resets>>
    /\ UNCHANGED <<widgetVars, scmVars>>

\* selectQuickPick is entered, line 97, and calls findQuickPick, line 98.
CallSelectQuickPick ==
    /\ pc = "idle"
    /\ \E a \in Args : arg' = a
    /\ op' = "selectQuickPick"
    /\ pc' = "first"
    /\ textBefore' = getText(field)
    /\ UNCHANGED <<field, clipboard, items, top, marksLast, found, visited,
                   clicks, resets>>
    /\ UNCHANGED <<widgetVars, scmVars>>

\* findQuickPick, lines 132-137: the list is put back to its first page.
FindFirst ==
    /\ pc = "first"
    /\ IF ~FirstPresent(items, top)
       THEN \E st \in resetPosition([field |-> field, clipboard |-> clipboard]) :
                /\ field' = st.field
                /\ clipboard' = st.clipboard
                /\ top' = 0
                /\ resets' = resets + 1
       ELSE UNCHANGED <<field, clipboard, top, resets>>
    /\ pc' = "loop"
    /\ UNCHANGED <<items, marksLast, op, arg, found, visited, clicks, textBefore>>
    /\ UNCHANGED <<widgetVars, scmVars>>

\* One pass of the while loop, lines 139-157, up to the paging key.
FindLoop ==
    /\ pc = "loop"
    /\ LET r == ScanPage(items, top, marksLast, arg)
       IN /\ found' = r.found
          /\ pc' = IF r.found # None \/ r.endReached THEN "returned" ELSE "pagedown"
    /\ visited' = visited \cup {top}
    /\ UNCHANGED <<field, clipboard, items, top, marksLast, op, arg, clicks,
                   resets, textBefore>>
    /\ UNCHANGED <<widgetVars, scmVars>>

\* Line 158: the paging key, then the loop again.
FindPageDown ==
    /\ pc = "pagedown"
    /\ top' = PageDown(items, top)
    /\ pc' = "loop"
    /\ UNCHANGED <<field, clipboard, items, marksLast, op, arg, found, visited,
                   clicks, resets, textBefore>>
    /\ UNCHANGED <<widgetVars, scmVars>>

\* findQuickPick resolves to found.
FindReturn ==
    /\ pc = "returned"
    /\ op = "findQuickPick"
    /\ pc' = "done"
    /\ UNCHANGED <<field, clipboard, items, top, marksLast, op, arg, found,
                   visited, clicks, resets, textBefore>>
    /\ UNCHANGED <<widgetVars, scmVars>>

\* selectQuickPick, lines 98-103, after findQuickPick resolved.
SelectFinish ==
    /\ pc = "returned"
    /\ op = "selectQuickPick"
    /\ IF found # None
       THEN /\ clicks' = Append(clicks, found)
            /\ UNCHANGED <<field, clipboard, top, resets>>
       ELSE /\ \E st \in resetPosition([field |-> field, clipboard |-> clipboard]) :
                  /\ field' = st.field
                  /\ clipboard' = st.clipboard
            /\ top' = 0
            /\ resets' = resets + 1
            /\ UNCHANGED clicks
    /\ pc' = "done"
    /\ UNCHANGED <<items, marksLast, op, arg, found, visited, textBefore>>
    /\ UNCHANGED <<widgetVars, scmVars>>

NextInput ==
    \/ CallFindQuickPick
    \/ CallSelectQuickPick
    \/ FindFirst
    \/ FindLoop
    \/ FindPageDown
    \/ FindReturn
    \/ SelectFinish

SpecInput == InitInput /\ [][NextInput]_vars

\* Every driver round trip is awaited and answered: a call that can take a
\* step does take it.
FairSpecInput == SpecInput /\ WF_vars(NextInput)

\* -------------------------------------------- the input box's other calls
\* The quick pick list and the field, left alone by these calls.
InputAtRest ==
    /\ field = [value |-> << >>, sel |-> FALSE]
    /\ clipboard = << >>
    /\ items = << >>
    /\ top = 0
    /\ marksLast = FALSE
    /\ pc = "idle"
    /\ op = "none"
    /\ arg = IndexArg(None)
    /\ found = None
    /\ visited = {}
    /\ clicks = << >>
    /\ resets = 0
    /\ textBefore = << >>

InitWidgets ==
    /\ selectAll \in {[count |-> 0, selected |-> FALSE]}
                        \cup {[count |-> 1, selected |-> b] : b \in BOOLEAN}
    /\ titleBar \in {[count |-> 0, displayed |-> FALSE, backButtons |-> 0,
                      enabled |-> FALSE]}
                       \cup {[count |-> 1, displayed |-> d, backButtons |-> 0,
                              enabled |-> FALSE] : d \in BOOLEAN}
                       \cup {[count |-> 1, displayed |-> d, backButtons |-> 1,
                              enabled |-> e] : d \in BOOLEAN, e \in BOOLEAN}
    /\ description \in BOOLEAN
    /\ call = [name |-> "none", state |-> FALSE]
    /\ outcome = [state |-> "none", value |-> "none"]
    /\ pressed = << >>
    /\ repeats = 0
    /\ ncalls = 0
    /\ InputAtRest
    /\ ScmAtRest

\* Calls in a row with the same name and argument, this one included.
Repeats(c) == IF call = c THEN repeats + 1 ELSE 1

ToggleAllQuickPicks ==
    /\ ncalls < MaxCalls
    /\ \E state \in BOOLEAN :
          LET r == toggleAllQuickPicks(selectAll, state)
              c == [name |-> "toggleAllQuickPicks", state |-> state]
          IN /\ call' = c
             /\ repeats' = Repeats(c)
             /\ outcome' = r.outcome
             /\ pressed' = r.pressed
             /\ selectAll' = r.selectAll
    /\ ncalls' = ncalls + 1
    /\ UNCHANGED <<titleBar, description>>
    /\ UNCHANGED <<inputVars, scmVars>>

Back ==
    /\ ncalls < MaxCalls
    /\ LET r == back(titleBar)
           c == [name |-> "back", state |-> FALSE]
       IN /\ call' = c
          /\ repeats' = Repeats(c)
          /\ outcome' = r.outcome
          /\ pressed' = r.pressed
    /\ ncalls' = ncalls + 1
    /\ UNCHANGED <<selectAll, titleBar, description>>
    /\ UNCHANGED <<inputVars, scmVars>>

GetDescription ==
    /\ ncalls < MaxCalls
    /\ LET c == [name |-> "getDescription", state |-> FALSE]
       IN /\ call' = c
          /\ repeats' = Repeats(c)
    /\ outcome' = getDescription(description)
    /\ pressed' = << >>
    /\ ncalls' = ncalls + 1
    /\ UNCHANGED <<selectAll, titleBar, description>>
    /\ UNCHANGED <<inputVars, scmVars>>

NextWidgets ==
    \/ ToggleAllQuickPicks
    \/ Back
    \/ GetDescription

SpecWidgets == InitWidgets /\ [][NextWidgets]_vars

\* ------------------------------------------------ the source control view
InitScm ==
    /\ rows \in Views
    /\ scmCall = [name |-> "none", provider |-> SingleProvider, staged |-> FALSE]
    /\ scmResult = NoResult
    /\ InputAtRest
    /\ WidgetsAtRest

\* The provider objects a test holds are those getProviders returned.
ProvidersOf(rs) == {getProviders(rs)[k] : k \in 1..Len(getProviders(rs))}

GetProviders ==
    /\ scmCall.name = "none"
    /\ scmCall' = [name |-> "getProviders", provider |-> SingleProvider,
                   staged |-> FALSE]
    /\ scmResult' = [NoResult EXCEPT !.providers = getProviders(rows)]
    /\ UNCHANGED rows
    /\ UNCHANGED <<inputVars, widgetVars>>

GetChanges ==
    /\ scmCall.name = "none"
    /\ \E p \in ProvidersOf(rows), staged \in BOOLEAN :
          LET r == IF p.type = "single" THEN singleGetChanges(rows, staged)
                   ELSE multiGetChanges(rows, p.index, staged)
          IN /\ scmCall' = [name |-> "getChanges", provider |-> p, staged |-> staged]
             /\ scmResult' = [NoResult EXCEPT !.count = r.count,
                                              !.header = r.header,
                                              !.elements = r.elements]
    /\ UNCHANGED rows
    /\ UNCHANGED <<inputVars, widgetVars>>

GetChangeCount ==
    /\ scmCall.name = "none"
    /\ \E p \in ProvidersOf(rows), staged \in BOOLEAN :
          /\ scmCall' = [name |-> "getChangeCount", provider |-> p, staged |-> staged]
          /\ scmResult' = [NoResult EXCEPT !.count =
                              IF p.type = "single"
                              THEN singleGetChangeCount(rows, staged)
                              ELSE multiGetChangeCount(rows, p.index, staged)]
    /\ UNCHANGED rows
    /\ UNCHANGED <<inputVars, widgetVars>>

NextScm ==
    \/ GetProviders
    \/ GetChanges
    \/ GetChangeCount

SpecScm == InitScm /\ [][NextScm]_vars

\* ---------------------------------------------------------------- claims
\* Row indexes in the DOM when the list is scrolled to page t.
ItemsOnPage(t) == {Window(items, t)[k] : k \in 1..Len(Window(items, t))}

\* Item i is the one asked for: its label contains the text (some slice of
\* the label is the text), or its index is the number.
Wanted(i) ==
    IF arg.isText
    THEN \E m \in 1..(Len(items[i + 1]) + 1), n \in 0..Len(items[i + 1]) :
             SubSeq(items[i + 1], m, n) = arg.text
    ELSE i = arg.index

HitsOnPage(t) == {i \in ItemsOnPage(t) : Wanted(i)}

\* C1: every call of findQuickPick eventually returns, for every list the
\* host can render, a list with no items in the DOM included.
FindQuickPickReturns == (pc = "first") ~> (pc = "returned")

\* C2: findQuickPick resolves to the first pick in scan order that is asked
\* for (no earlier page and no earlier row of its page holds one), and to
\* undefined only when the pages visited reach the end of the list and hold
\* no pick that is asked for.
FindQuickPickResult ==
    pc \in {"returned", "done"} =>
        IF found # None
        THEN /\ found \in HitsOnPage(top)
             /\ \A i \in HitsOnPage(top) : found <= i
             /\ \A t \in visited : t < top => HitsOnPage(t) = {}
        ELSE /\ \A t \in visited : HitsOnPage(t) = {}
             /\ \E t \in visited : Len(items) - 1 \in ItemsOnPage(t)

\* C2 witness: a text found on a later page, after a page without it.
FindQuickPickResultWitness ==
    /\ pc = "done"
    /\ op = "findQuickPick"
    /\ arg.isText
    /\ found # None
    /\ Cardinality(visited) >= 2

\* C7: selectQuickPick, once findQuickPick resolved, clicks the item found
\* and touches nothing else; with no item found it clicks nothing, calls
\* resetPosition once, and the field's text is the text before the call.
SelectQuickPickEffect ==
    [][(pc = "returned" /\ op = "selectQuickPick" /\ pc' = "done") =>
          IF found # None
          THEN /\ clicks' = Append(clicks, found)
               /\ field' = field
               /\ clipboard' = clipboard
               /\ top' = top
               /\ resets' = resets
          ELSE /\ clicks' = << >>
               /\ resets' = resets + 1
               /\ getText(field') = getText(field)
               /\ getText(field') = textBefore]_vars

\* C7 witness: no item was found and a non-empty text was typed back.
SelectQuickPickEffectWitness ==
    /\ pc = "done"
    /\ op = "selectQuickPick"
    /\ found = None
    /\ resets >= 1
    /\ Len(textBefore) > 0
    /\ getText(field) = textBefore

\* C3: with no 'select all' checkbox, toggleAllQuickPicks clicks nothing and
\* raises no error.
ToggleWithoutCheckboxDoesNothing ==
    (call.name = "toggleAllQuickPicks" /\ selectAll.count = 0) =>
        outcome.state = "fulfilled" /\ pressed = << >>

\* C4: getDescription of an item with no description element resolves to
\* undefined instead of rejecting.
MissingDescriptionIsUndefined ==
    (call.name = "getDescription" /\ ~description) =>
        outcome = Fulfilled("undefined")

\* The back button can be clicked: the title bar exists and is displayed, a
\* back button exists and is enabled.
BackAvailable ==
    /\ titleBar.count > 0
    /\ titleBar.displayed
    /\ titleBar.backButtons > 0
    /\ titleBar.enabled

\* C5: back resolves to true exactly when it clicked the back button once,
\* which it does exactly when the button can be clicked; otherwise it clicks
\* nothing and resolves to false; it never rejects.
BackResult ==
    call.name = "back" =>
        /\ outcome.state = "fulfilled"
        /\ outcome.value \in {"true", "false"}
        /\ (outcome.value = "true") <=> (pressed = <<"backButton">>)
        /\ (outcome.value = "true") <=> BackAvailable
        /\ (outcome.value = "false") => (pressed = << >>)

\* C5 witness: a displayed title bar whose back button is disabled.
BackResultWitness ==
    /\ call.name = "back"
    /\ titleBar.count > 0
    /\ titleBar.displayed
    /\ titleBar.backButtons > 0
    /\ ~titleBar.enabled
    /\ outcome = Fulfilled("false")

\* C8: with a 'select all' checkbox, after toggleAllQuickPicks(state) the
\* checkbox is selected exactly when state is true, whatever it was before,
\* and so too after the same call is made again.
ToggleSetsState ==
    (call.name = "toggleAllQuickPicks" /\ selectAll.count > 0) =>
        /\ outcome.state = "fulfilled"
        /\ selectAll.selected = call.state

\* C8 witness: the second of two calls in a row with state = false.
ToggleSetsStateWitness ==
    /\ call = [name |-> "toggleAllQuickPicks", state |-> FALSE]
    /\ selectAll.count > 0
    /\ repeats = 2
    /\ ~selectAll.selected
    /\ pressed = <<"selectAll", "selectAll">>

\* Rows of a kind, by data-index.
RowsOfKind(kind) == {i \in RowIndexes(rows) : rows[i + 1].kind = kind}

\* C6: the changes getChanges returns are exactly the rows one aria-level
\* below the chosen header whose data-index is in
\* (headerIndex, headerIndex + changeCount]; so there are at most
\* changeCount of them, and none when changeCount is 0 or no header is chosen.
GetChangesRange ==
    scmCall.name = "getChanges" =>
        LET h == scmResult.header
            c == scmResult.count
            es == scmResult.elements
            got == {es[k] : k \in 1..Len(es)}
        IN /\ Len(es) <= c
           /\ Cardinality(got) = Len(es)
           /\ (c = 0 \/ h = None) => es = << >>
           /\ h # None =>
                 /\ h \in RowsOfKind(IF scmCall.staged THEN "staged" ELSE "changes")
                 /\ got = {i \in RowIndexes(rows) :
                              /\ rows[i + 1].level = rows[h + 1].level + 1
                              /\ i > h
                              /\ i <= h + c}

\* C6 witness: changes were returned while a row of the same depth lies
\* past the range and is left out.
GetChangesRangeWitness ==
    /\ scmCall.name = "getChanges"
    /\ scmResult.header # None
    /\ Len(scmResult.elements) >= 2
    /\ \E i \in RowIndexes(rows) :
          /\ rows[i + 1].level = rows[scmResult.header + 1].level + 1
          /\ i > scmResult.header + scmResult.count

\* C9: getProviders returns nothing without an input field, one single
\* provider with exactly one input field and no multi-provider element, and
\* otherwise one multi provider per multi-provider item, in DOM order; never
\* a mix of the two kinds.
GetProvidersResult ==
    scmCall.name = "getProviders" =>
        LET nInputs == Cardinality(RowsOfKind("input"))
            provs == {i \in RowsOfKind("provider") : rows[i + 1].level = 1}
            ps == scmResult.providers
        IN /\ nInputs = 0 => ps = << >>
           /\ (nInputs = 1 /\ RowsOfKind("provider") = {}) => ps = <<SingleProvider>>
           /\ (nInputs >= 1 /\ ~(nInputs = 1 /\ RowsOfKind("provider") = {})) =>
                 /\ {ps[k].index : k \in 1..Len(ps)} = provs
                 /\ \A k \in 1..Len(ps) : ps[k].type = "multi"
                 /\ \A j, k \in 1..Len(ps) : j < k => ps[j].index < ps[k].index
           /\ \A j, k \in 1..Len(ps) : ps[j].type = ps[k].type

\* C9 witness: one input field under one provider row gives one multi
\* provider.
GetProvidersResultWitness ==
    /\ scmCall.name = "getProviders"
    /\ Cardinality(RowsOfKind("input")) = 1
    /\ Len(scmResult.providers) = 1
    /\ scmResult.providers[1].type = "multi"

\* C10: getChanges of provider P in a view of several takes the first header
\* of the requested kind past P's row, returns no row that lies under a
\* later provider's row, and returns nothing when no header follows P.
MultiGetChangesOwnHeader ==
    (scmCall.name = "getChanges" /\ scmCall.provider.type = "multi") =>
        LET P == scmCall.provider.index
            later == {i \in RowsOfKind(IF scmCall.staged THEN "staged" ELSE "changes") :
                         i > P}
            es == scmResult.elements
        IN /\ later = {} => es = << >>
           /\ scmResult.header # None =>
                 /\ scmResult.header \in later
                 /\ \A i \in later : scmResult.header <= i
           /\ \A k \in 1..Len(es) :
                 ~\E q \in RowsOfKind("provider") : P < q /\ q < es[k]

\* C11: getChangeCount of provider P in a view of several returns the count
\* shown on P's own header, the first header of the requested kind past P's
\* row, and 0 when no header of that kind follows P.
MultiGetChangeCountOwnHeader ==
    (scmCall.name = "getChangeCount" /\ scmCall.provider.type = "multi") =>
        LET P == scmCall.provider.index
            later == {i \in RowsOfKind(IF scmCall.staged THEN "staged" ELSE "changes") :
                         i > P}
        IN IF later = {} THEN scmResult.count = 0
           ELSE \E h \in later :
                   /\ \A i \in later : h <= i
                   /\ scmResult.count = rows[h + 1].count

====
